---------------------------- MODULE Spec2Model ----------------------------
(***************************************************************************)
(* DeepFoolAttack.__call__ (foolbox/attacks/deepfool.py) with its two norm *)
(* strategies, L2DeepFoolAttack and LinfDeepFoolAttack, as a state machine.*)
(*                                                                         *)
(* Numbers are fixed point.  One input unit is 1e-5, so the stability      *)
(* offset 1e-4 is 10 units and the input range [0, 1] is 0 .. 100000.  One *)
(* gradient unit is 1e-8, so the eps of the norm strategies is 1 unit.  A  *)
(* logit (and a loss) is counted in gradient units times input units, so   *)
(* loss / (norm + eps) is a distance in input units.  Divisions truncate   *)
(* toward zero; the Euclidean norm is taken with NormScale sub-units.      *)
(*                                                                         *)
(* The model collaborator is a linear classifier  logits = W x + b  and    *)
(* the criterion is Misclassification(labels); both are drawn in Init.     *)
(***************************************************************************)
EXTENDS Integers, Sequences, FiniteSets

VARIABLES
    self,        \* the attack object: steps, candidates, overshoot, loss, p
    model,       \* the model collaborator: W, b, C, min_, max_
    labels,      \* the criterion's labels, one per sample
    inputs,      \* the batch handed to __call__
    pc,          \* position in __call__
    classes,     \* per sample, class indices by descending score (line 60/70)
    candidates,  \* resolved number of candidate positions (lines 61-64)
    x0,          \* line 107
    x,           \* working batch
    p_total,     \* line 108
    it,          \* number of loop iterations entered (line 109)
    k,           \* next candidate position of the comprehension of line 121
    diffs,       \* line 111/121: one (losses, grads) entry per evaluated k
    is_adv,      \* line 114
    best,        \* line 135
    distances,   \* line 144: selected distance plus offset
    grads,       \* line 138: selected gradients
    p_step,      \* line 145
    calls,       \* history: per entered iteration, the k's handed to the oracle
    result,      \* <<>> or <<returned tensor>>
    error        \* "" or the exception raised

vars == <<self, model, labels, inputs, pc, classes, candidates, x0, x, p_total,
          it, k, diffs, is_adv, best, distances, grads, p_step, calls, result,
          error>>

-----------------------------------------------------------------------------
(* Bounds of the explored configurations. *)
MaxSteps == 2
MaxClasses == 3
MaxCandidates == 3
NormScale == 100

(* Program constants in fixed-point units. *)
Offset == 10
Eps == 1
default_overshoot == 2

-----------------------------------------------------------------------------
(* Arithmetic helpers. *)
Abs(a) == IF a < 0 THEN 0 - a ELSE a

Sign(a) == IF a > 0 THEN 1 ELSE IF a < 0 THEN 0 - 1 ELSE 0

TruncDiv(a, b) == IF a >= 0 THEN a \div b ELSE 0 - ((0 - a) \div b)

RECURSIVE SumSeq(_)
SumSeq(s) == IF s = <<>> THEN 0 ELSE Head(s) + SumSeq(Tail(s))

RECURSIVE IsqrtFrom(_, _, _)
IsqrtFrom(n, lo, hi) ==
    IF lo >= hi THEN lo
    ELSE LET mid == (lo + hi + 1) \div 2
         IN  IF mid * mid <= n THEN IsqrtFrom(n, mid, hi)
                               ELSE IsqrtFrom(n, lo, mid - 1)

RECURSIVE IsqrtAbove(_, _)
IsqrtAbove(n, h) == IF h * h > n THEN h ELSE IsqrtAbove(n, 2 * h)

(* floor of the square root *)
Isqrt(n) == IsqrtFrom(n, 0, IsqrtAbove(n, 1))

Rows(t) == 1..Len(t)


-----------------------------------------------------------------------------
(* The collaborators: a linear model and the Misclassification criterion. *)

(* model(x) for one sample v: the score vector W v + b. *)
ModelLogits(v) ==
    [c \in 1..model.C |->
        SumSeq([d \in 1..Len(v) |-> model.W[c][d] * v[d]]) + model.b[c]]

(* logits.argmax(axis=-1): the first index of the largest score. *)
Argmax(lg) ==
    CHOOSE c \in 1..Len(lg) :
        /\ \A e \in 1..Len(lg) : lg[e] <= lg[c]
        /\ \A e \in 1..(c - 1) : lg[e] < lg[c]

(* criterion(x, logits) of Misclassification(labels), per sample. *)
criterion(xb) == [i \in Rows(xb) |-> Argmax(ModelLogits(xb[i])) # labels[i]]

-----------------------------------------------------------------------------
(* Top-K candidate selector, lines 59-70. *)

(* logits.argsort(axis=-1).flip(axis=-1) for one sample: every ordering of
   the classes by descending score; the order among equal scores is left to
   the sort, so all of them are possible. *)
ArgsortFlip(lg) ==
    {p \in [1..Len(lg) -> 1..Len(lg)] :
        /\ \A a, c \in 1..Len(lg) : a # c => p[a] # p[c]
        /\ \A a \in 1..(Len(lg) - 1) : lg[p[a]] >= lg[p[a + 1]]}

(* line 60 for the first n samples of the batch. *)
RECURSIVE ClassOrders(_, _)
ClassOrders(xb, n) ==
    IF n = 0 THEN {<<>>}
    ELSE {Append(s, p) : s \in ClassOrders(xb, n - 1),
                         p \in ArgsortFlip(ModelLogits(xb[n]))}

Min(a, c) == IF a <= c THEN a ELSE c

(* lines 61-64: the resolved number of candidates; self.candidates is <<>>
   for None and <<n>> for the integer n. *)
ResolveCandidates(cand, C) == IF cand = <<>> THEN C ELSE Min(cand[1], C)

(* line 65: the check is made on the bounded branch only. *)
CandidatesRejected(cand, C) == cand # <<>> /\ ~(ResolveCandidates(cand, C) >= 2)

(* line 70: classes[:, :candidates], applied on the bounded branch only. *)
Truncate(p, cand, C) ==
    IF cand = <<>> THEN p ELSE SubSeq(p, 1, ResolveCandidates(cand, C))

-----------------------------------------------------------------------------
(* Linearized margin oracle, lines 76-105. *)

LossModes == {"logits", "crossentropy"}

(* classes[:, kk] exists (0-based position kk). *)
HasPosition(kk) == \A i \in Rows(classes) : kk + 1 <= Len(classes[i])

(* loss_fun(x, kk) with its gradient (loss_aux_and_grad): per sample the loss
   lk - l0 and the gradient of it, W[ik] - W[i0] for the linear model.  In
   "crossentropy" mode -crossentropy(logits, c) is logits[c] - logsumexp, so
   the difference lk - l0 is the same logits[ik] - logits[i0]. *)
loss_aux_and_grad(xb, kk) ==
    LET ik(i) == classes[i][kk + 1]
        i0(i) == classes[i][1]
        lg(i) == ModelLogits(xb[i])
    IN  [losses |-> [i \in Rows(xb) |-> lg(i)[ik(i)] - lg(i)[i0(i)]],
         grads  |-> [i \in Rows(xb) |->
                       [d \in 1..Len(xb[i]) |->
                           model.W[ik(i)][d] - model.W[i0(i)][d]]]]

-----------------------------------------------------------------------------
(* Norm strategies, lines 166-184.  Each takes one sample's values. *)

(* flatten(grads).norms.l2(axis=-1), in units of 1/NormScale. *)
NormL2(g) == Isqrt(SumSeq([d \in 1..Len(g) |-> g[d] * g[d]]) * NormScale * NormScale)

(* flatten(grads).abs().sum(axis=-1) *)
NormL1(g) == SumSeq([d \in 1..Len(g) |-> Abs(g[d])])

(* L2DeepFoolAttack.get_distances *)
L2_get_distances(loss, g) ==
    TruncDiv(Abs(loss) * NormScale, NormL2(g) + Eps * NormScale)

(* L2DeepFoolAttack.get_perturbations *)
L2_get_perturbations(dist, g) ==
    [d \in 1..Len(g) |->
        TruncDiv(dist * NormScale * g[d], NormL2(g) + Eps * NormScale)]

(* LinfDeepFoolAttack.get_distances *)
Linf_get_distances(loss, g) == TruncDiv(Abs(loss), NormL1(g) + Eps)

Linf_get_perturbations_unsigned(dist, g) == [d \in 1..Len(g) |-> dist * g[d]]

(* LinfDeepFoolAttack.get_perturbations *)
Linf_get_perturbations(dist, g) == [d \in 1..Len(g) |-> dist * Sign(g[d])]

(* self.get_distances / self.get_perturbations: dispatch on the variant. *)
get_distances(loss, g) ==
    IF self.p = "L2" THEN L2_get_distances(loss, g) ELSE Linf_get_distances(loss, g)

get_perturbations(dist, g) ==
    IF self.p = "L2" THEN L2_get_perturbations(dist, g)
                     ELSE Linf_get_perturbations(dist, g)

-----------------------------------------------------------------------------
(* Pieces of the loop body, lines 124-153. *)

ArgminLast(ds) ==
    CHOOSE j \in 1..Len(ds) :
        /\ \A e \in 1..Len(ds) : ds[j] <= ds[e]
        /\ \A e \in (j + 1)..Len(ds) : ds[e] > ds[j]

(* distances.argmin(axis=1) for one sample: first position of the minimum. *)
Argmin(ds) ==
    CHOOSE j \in 1..Len(ds) :
        /\ \A e \in 1..Len(ds) : ds[j] <= ds[e]
        /\ \A e \in 1..(j - 1) : ds[e] > ds[j]

ClipNoUpper(a, lo, hi) == IF a < lo THEN lo ELSE a

(* ep.clip(x, min_, max_) for one element. *)
Clip(a, lo, hi) == IF a < lo THEN lo ELSE IF a > hi THEN hi ELSE a

(* (1.0 + self.overshoot) * p, overshoot in hundredths. *)
Overshot(p, overshoot) == TruncDiv((100 + overshoot) * p, 100)

NextXUnmasked(adv, xi, x0i, pi, overshoot, lo, hi) ==
    [d \in 1..Len(xi) |-> Clip(x0i[d] + Overshot(pi[d], overshoot), lo, hi)]

(* lines 150-153 for one sample: the masked update followed by the clip. *)
NextX(adv, xi, x0i, pi, overshoot, lo, hi) ==
    [d \in 1..Len(xi) |->
        Clip(IF adv THEN xi[d] ELSE x0i[d] + Overshot(pi[d], overshoot), lo, hi)]

(* line 148 for one sample. *)
Accumulate(pi, si) == [d \in 1..Len(pi) |-> pi[d] + si[d]]

NeverAllAdversarial(adv) == FALSE

(* is_adv.all(), line 115. *)
AllAdversarial(adv) == \A i \in Rows(adv) : adv[i]

LoopContinuesInclusive(done, steps) == done <= steps

(* range(self.steps), line 109: another iteration after done entered ones. *)
LoopContinues(done, steps) == done < steps

LossNeverRejected(loss) == FALSE

(* lines 76-103: the else branch raising on an unknown loss mode. *)
LossRejected(loss) == loss \notin LossModes

(* lines 124-132 for sample i: its distance at every evaluated position. *)
CandidateDistances(i) ==
    [j \in 1..Len(diffs) |-> get_distances(diffs[j].losses[i], diffs[j].grads[i])]

(* line 135 *)
Best(i) == Argmin(CandidateDistances(i))

(* lines 136 and 144 *)
SelectedDistance(i) == CandidateDistances(i)[Best(i)] + Offset

(* line 138 *)
SelectedGrad(i) == diffs[Best(i)].grads[i]

(* line 145 *)
Step(i) == get_perturbations(SelectedDistance(i), SelectedGrad(i))

NextPTotalMasked(i) ==
    IF is_adv[i] THEN p_total[i] ELSE Accumulate(p_total[i], Step(i))

(* line 148: p_total += p_step, for sample i. *)
NextPTotal(i) == Accumulate(p_total[i], Step(i))

-----------------------------------------------------------------------------
(* Explored inputs. *)

(* Weight rows and biases of the linear models, indexed cyclically by class. *)
BaseW ==
    << << <<2, 0>>, <<0, 2>>, <<0 - 2, 0>>, <<0, 0 - 2>> >>,
       << <<1, 1>>, <<1, 1>>, <<1, 0 - 1>>, <<0, 0>> >> >>

Baseb ==
    << <<0, 0, 0, 0>>,
       <<20000, 0, 60000, 40000>> >>

Cyc(c) == ((c - 1) % 4) + 1

Models ==
    {[W |-> [c \in 1..C |-> BaseW[m][Cyc(c)]],
      b |-> [c \in 1..C |-> Baseb[m][Cyc(c)]],
      C |-> C, min_ |-> 0, max_ |-> 100000] :
        m \in 1..Len(BaseW), C \in 1..MaxClasses}

Batches ==
    { << <<60000, 30000>>, <<20000, 90000>> >>,
      << <<0, 0>>, <<100000, 50000>> >>,
      << <<0 - 10000, 50000>>, <<110000, 120000>> >>,
      << <<50000, 50000>> >> }

Configs ==
    [steps : 0..MaxSteps,
     candidates : {<<>>} \cup {<<n>> : n \in 1..MaxCandidates},
     overshoot : {0, default_overshoot},
     loss : LossModes \cup {"unsupported-value"},
     p : {"L2", "Linf"}]

-----------------------------------------------------------------------------
Init ==
    /\ self \in Configs
    /\ model \in Models
    /\ inputs \in Batches
    /\ labels \in [Rows(inputs) -> 1..model.C]
    /\ pc = "classify"
    /\ classes = <<>>
    /\ candidates = 0
    /\ x0 = <<>>
    /\ x = inputs
    /\ p_total = <<>>
    /\ it = 0
    /\ k = 0
    /\ diffs = <<>>
    /\ is_adv = <<>>
    /\ best = <<>>
    /\ distances = <<>>
    /\ grads = <<>>
    /\ p_step = <<>>
    /\ calls = <<>>
    /\ result = <<>>
    /\ error = ""

Raise(e) ==
    /\ pc' = "raised"
    /\ error' = e

(* lines 52-70: score the input, rank the classes, resolve candidates. *)
Classify ==
    /\ pc = "classify"
    /\ IF CandidatesRejected(self.candidates, model.C)
       THEN /\ Raise("ValueError")
            /\ UNCHANGED <<classes, candidates>>
       ELSE /\ \E cls \in ClassOrders(x, Len(x)) :
                 classes' = [i \in Rows(x) |->
                               Truncate(cls[i], self.candidates, model.C)]
            /\ candidates' = ResolveCandidates(self.candidates, model.C)
            /\ pc' = "loss"
            /\ UNCHANGED error
    /\ UNCHANGED <<self, model, labels, inputs, x0, x, p_total, it, k, diffs,
                   is_adv, best, distances, grads, p_step, calls, result>>

(* lines 72-108: build the loss function or raise; x0 = x, p_total = 0. *)
BuildLoss ==
    /\ pc = "loss"
    /\ IF LossRejected(self.loss)
       THEN /\ Raise("ValueError")
            /\ UNCHANGED <<x0, p_total>>
       ELSE /\ x0' = x
            /\ p_total' = [i \in Rows(x) |-> [d \in 1..Len(x[i]) |-> 0]]
            /\ pc' = "loop"
            /\ UNCHANGED error
    /\ UNCHANGED <<self, model, labels, inputs, classes, candidates, x, it, k,
                   diffs, is_adv, best, distances, grads, p_step, calls, result>>

(* line 109: the for statement. *)
LoopHead ==
    /\ pc = "loop"
    /\ IF LoopContinues(it, self.steps)
       THEN /\ it' = it + 1
            /\ calls' = Append(calls, <<>>)
            /\ pc' = "oracle1"
       ELSE /\ pc' = "return"
            /\ UNCHANGED <<it, calls>>
    /\ UNCHANGED <<self, model, labels, inputs, classes, candidates, x0, x,
                   p_total, k, diffs, is_adv, best, distances, grads, p_step,
                   result, error>>

Called(kk) == [calls EXCEPT ![Len(calls)] = Append(@, kk)]

(* lines 111-112: the oracle at k = 1; classes[:, 1] must exist. *)
OracleFirst ==
    /\ pc = "oracle1"
    /\ calls' = Called(1)
    /\ IF HasPosition(1)
       THEN /\ diffs' = <<loss_aux_and_grad(x, 1)>>
            /\ pc' = "criterion"
            /\ UNCHANGED error
       ELSE /\ Raise("IndexError")
            /\ UNCHANGED diffs
    /\ UNCHANGED <<self, model, labels, inputs, classes, candidates, x0, x,
                   p_total, it, k, is_adv, best, distances, grads, p_step,
                   result>>

(* lines 114-116: the criterion on the fresh scores; break when all hold. *)
CheckAdversarial ==
    /\ pc = "criterion"
    /\ is_adv' = criterion(x)
    /\ IF AllAdversarial(is_adv')
       THEN /\ pc' = "return"
            /\ UNCHANGED k
       ELSE /\ pc' = "oraclek"
            /\ k' = 2
    /\ UNCHANGED <<self, model, labels, inputs, classes, candidates, x0, x,
                   p_total, it, diffs, best, distances, grads, p_step, calls,
                   result, error>>

(* line 121: one call of the comprehension over range(2, candidates). *)
OracleRest ==
    /\ pc = "oraclek"
    /\ k < candidates
    /\ diffs' = Append(diffs, loss_aux_and_grad(x, k))
    /\ calls' = Called(k)
    /\ k' = k + 1
    /\ UNCHANGED <<self, model, labels, inputs, pc, classes, candidates, x0, x,
                   p_total, it, is_adv, best, distances, grads, p_step, result,
                   error>>

(* lines 124-153: select the best candidate, step, accumulate, mask, clip. *)
Update ==
    /\ pc = "oraclek"
    /\ ~(k < candidates)
    /\ best' = [i \in Rows(x) |-> Best(i)]
    /\ distances' = [i \in Rows(x) |-> SelectedDistance(i)]
    /\ grads' = [i \in Rows(x) |-> SelectedGrad(i)]
    /\ p_step' = [i \in Rows(x) |-> Step(i)]
    /\ p_total' = [i \in Rows(x) |-> NextPTotal(i)]
    /\ x' = [i \in Rows(x) |->
               NextX(is_adv[i], x[i], x0[i], p_total'[i], self.overshoot,
                     model.min_, model.max_)]
    /\ pc' = "loop"
    /\ UNCHANGED <<self, model, labels, inputs, classes, candidates, x0, it, k,
                   diffs, is_adv, calls, result, error>>

(* line 155 *)
Return ==
    /\ pc = "return"
    /\ result' = <<x>>
    /\ pc' = "done"
    /\ UNCHANGED <<self, model, labels, inputs, classes, candidates, x0, x,
                   p_total, it, k, diffs, is_adv, best, distances, grads,
                   p_step, calls, error>>

Next ==
    \/ Classify
    \/ BuildLoss
    \/ LoopHead
    \/ OracleFirst
    \/ CheckAdversarial
    \/ OracleRest
    \/ Update
    \/ Return

Spec == Init /\ [][Next]_vars

-----------------------------------------------------------------------------
(* Vocabulary of the properties. *)

InBoundsVec(v) == \A d \in 1..Len(v) : model.min_ <= v[d] /\ v[d] <= model.max_

InBounds(t) == \A i \in Rows(t) : InBoundsVec(t[i])

ClipVec(v) == [d \in 1..Len(v) |->
                 IF v[d] < model.min_ THEN model.min_
                 ELSE IF v[d] > model.max_ THEN model.max_ ELSE v[d]]

Zeros(v) == [d \in 1..Len(v) |-> 0]

(* x0 + (1 + overshoot) * p for one sample, before the clip *)
Target(i, p) ==
    [d \in 1..Len(p) |-> x0[i][d] + TruncDiv((100 + self.overshoot) * p[d], 100)]

(* at least one loop step ran to its end *)
StepCompleted == p_step # <<>>

(* the step from the end of the candidate evaluation to the loop head *)
UpdateStep == pc = "oraclek" /\ pc' = "loop"

TotalCalls == SumSeq([j \in 1..Len(calls) |-> Len(calls[j])])

-----------------------------------------------------------------------------
(* C1, as stated: every element of the returned tensor lies within
   [min_, max_], for all input batches, and so does the working x after each
   loop step. *)
C1_ClippedForAllInputs ==
    /\ (pc = "done" /\ candidates >= 2) => InBounds(result[1])
    /\ (pc = "loop" /\ StepCompleted) => InBounds(x)

(* C1, amended: the returned tensor lies within [min_, max_] whenever at
   least one loop step ran to its end or the input batch itself lies within
   [min_, max_]; the working x lies within [min_, max_] after each loop
   step. *)
C1_Clipped ==
    /\ StepCompleted => InBounds(x)
    /\ (pc = "done" /\ (StepCompleted \/ InBounds(inputs))) => InBounds(result[1])

(* a run returned after a step whose unclipped target left the bounds *)
C1_Witness ==
    /\ pc = "done"
    /\ StepCompleted
    /\ InBounds(inputs)
    /\ \E i \in Rows(x) : ~is_adv[i] /\ ~InBoundsVec(Target(i, p_total[i]))
                          /\ x[i] = ClipVec(Target(i, p_total[i]))

-----------------------------------------------------------------------------
(* C2: when the criterion holds for every sample at the first check, the
   loop breaks there: x and p_total are untouched, the only oracle call is
   the one for k = 1, and the input is returned unchanged. *)
C2_PreAdversarialUnchanged ==
    (it = 1 /\ ~StepCompleted /\ is_adv # <<>> /\ \A i \in Rows(is_adv) : is_adv[i])
        => /\ pc \in {"return", "done"}
           /\ x = inputs
           /\ \A i \in Rows(x) : p_total[i] = Zeros(x[i])
           /\ calls = << <<1>> >>
           /\ pc = "done" => result = <<inputs>>

C2_Witness ==
    /\ pc = "done"
    /\ it = 1
    /\ ~StepCompleted
    /\ Len(is_adv) = 2
    /\ \A i \in Rows(is_adv) : is_adv[i]

-----------------------------------------------------------------------------
(* C3: with steps = 0 the loop body never runs and the input is returned
   unchanged. *)
C3_ZeroStepsUnchanged ==
    self.steps = 0
        => /\ it = 0
           /\ calls = <<>>
           /\ pc \notin {"oracle1", "criterion", "oraclek"}
           /\ pc = "done" => result = <<inputs>>

C3_Witness == pc = "done" /\ self.steps = 0 /\ candidates >= 2 /\ Len(inputs) = 2

-----------------------------------------------------------------------------
(* C4: whenever fewer than 2 candidate classes are usable (candidates = 1, or
   fewer than 2 model classes, also with candidates = None), the call raises
   ValueError before the loop starts and returns nothing. *)
C4_TooFewCandidatesRejected ==
    ResolveCandidates(self.candidates, model.C) < 2
        => \/ pc \in {"classify", "loss"}
           \/ pc = "raised" /\ error = "ValueError" /\ it = 0

-----------------------------------------------------------------------------
(* C5: with a loss mode other than "logits" and "crossentropy" the call
   raises ValueError before any loop step or oracle evaluation, whatever
   steps is, and returns nothing. *)
C5_UnknownLossRejected ==
    self.loss \notin {"logits", "crossentropy"}
        => /\ pc \in {"classify", "loss", "raised"}
           /\ pc = "raised" => error = "ValueError"
           /\ it = 0
           /\ calls = <<>>
           /\ result = <<>>

C5_Witness ==
    /\ pc = "raised"
    /\ self.loss = "unsupported-value"
    /\ candidates >= 2
    /\ self.steps > 0

-----------------------------------------------------------------------------
(* C6, as stated: in every loop step a sample flagged adversarial keeps
   exactly its previous x and every other sample gets
   clip(x0 + (1 + overshoot) * p_total); a flagged sample stays flagged and
   its x never changes again. *)
C6_FlaggedKeepExactly ==
    [][\A i \in Rows(is_adv) :
          /\ (UpdateStep /\ ~is_adv[i]) => x'[i] = ClipVec(Target(i, p_total'[i]))
          /\ is_adv[i] => (x'[i] = x[i] /\ is_adv'[i])]_vars

(* C6, amended: in every loop step a flagged sample gets clip(x) of its
   previous x, which is exactly its previous x whenever that lies within
   [min_, max_], and every other sample gets
   clip(x0 + (1 + overshoot) * p_total); a flagged sample whose input lies
   within [min_, max_] stays flagged and its x never changes again. *)
C6_FlaggedKeepClipped ==
    [][\A i \in Rows(is_adv) :
          /\ (UpdateStep /\ ~is_adv[i]) => x'[i] = ClipVec(Target(i, p_total'[i]))
          /\ (UpdateStep /\ is_adv[i]) => x'[i] = ClipVec(x[i])
          /\ (is_adv[i] /\ InBoundsVec(x[i])) => x'[i] = x[i]
          /\ (is_adv[i] /\ InBoundsVec(inputs[i])) => (x'[i] = x[i] /\ is_adv'[i])]_vars

(* a mixed batch after a second step: the flagged sample still holds its
   input, the other one has moved *)
C6_Witness ==
    /\ pc = "loop"
    /\ it = 2
    /\ InBounds(inputs)
    /\ \E i, j \in Rows(is_adv) :
          /\ is_adv[i] /\ x[i] = inputs[i] /\ p_total[i] # Zeros(x[i])
          /\ ~is_adv[j] /\ x[j] # inputs[j]

-----------------------------------------------------------------------------
(* C7, as stated: a loop step leaves the p_total entries of the samples
   flagged adversarial at that step unchanged. *)
C7_FlaggedTotalUnchanged ==
    [][UpdateStep => \A i \in Rows(is_adv) : is_adv[i] => p_total'[i] = p_total[i]]_vars

(* C7, amended: every loop step adds the step's perturbation to the p_total
   entry of every sample, flagged or not; the flag masks only the update of
   x, which for a flagged sample is not recomputed from p_total. *)
C7_TotalAccumulatesForAll ==
    [][UpdateStep =>
          \A i \in Rows(is_adv) :
             /\ p_total'[i] = [d \in 1..Len(x[i]) |-> p_total[i][d] + p_step'[i][d]]
             /\ is_adv[i] => x'[i] = ClipVec(x[i])]_vars

(* a flagged sample whose p_total has grown although its x is its input *)
C7_Witness ==
    /\ pc = "loop"
    /\ \E i, j \in Rows(is_adv) :
          /\ is_adv[i] /\ ~is_adv[j]
          /\ p_total[i] # Zeros(x[i])
          /\ x[i] = inputs[i]

-----------------------------------------------------------------------------
(* C8, as stated: every element of an L-infinity step has absolute value
   equal to the sample's distance, for every gradient, zero elements
   included. *)
C8_LinfEveryElementAtDistance ==
    (self.p = "Linf" /\ StepCompleted)
        => \A i \in Rows(p_step) : \A d \in 1..Len(p_step[i]) :
              Abs(p_step[i][d]) = distances[i]

(* C8, amended: every element of an L-infinity step whose gradient element
   is nonzero has absolute value equal to the sample's distance and the sign
   of that gradient element; every element whose gradient element is zero is
   zero.  So the maximum norm of the step is the distance when the gradient
   has a nonzero element, and zero otherwise. *)
C8_LinfElementsBySign ==
    (self.p = "Linf" /\ StepCompleted)
        => \A i \in Rows(p_step) : \A d \in 1..Len(p_step[i]) :
              /\ grads[i][d] > 0 => p_step[i][d] = distances[i]
              /\ grads[i][d] < 0 => p_step[i][d] = 0 - distances[i]
              /\ grads[i][d] = 0 => p_step[i][d] = 0
              /\ distances[i] > 0

(* an L-infinity step on a gradient with a zero and a nonzero element of
   magnitude above one *)
C8_Witness ==
    /\ self.p = "Linf"
    /\ StepCompleted
    /\ \E i \in Rows(p_step) :
          /\ grads[i][1] = 0
          /\ Abs(grads[i][2]) > 1
          /\ Abs(p_step[i][2]) = distances[i]

-----------------------------------------------------------------------------
(* C9: at most steps iterations; each evaluates the oracle once for k = 1,
   then either ends the run or evaluates it once for each k = 2 ..
   candidates - 1 in ascending order; so a finished iteration made 1 or
   candidates - 1 calls and a run makes at most steps * (candidates - 1). *)
C9_OracleSchedule ==
    candidates # 0 =>
        /\ Len(calls) = it
        /\ it <= self.steps
        /\ \A j \in 1..Len(calls) :
              /\ Len(calls[j]) <= candidates - 1
              /\ \A n \in 1..Len(calls[j]) : calls[j][n] = n
              /\ (j < Len(calls) \/ pc \in {"loop", "return", "done"})
                    => Len(calls[j]) \in {1, candidates - 1}
              /\ j < Len(calls) => Len(calls[j]) = candidates - 1
        /\ TotalCalls <= self.steps * (candidates - 1)
        /\ pc = "raised" => it = 0

(* C9 restricted to the runs with at least 2 resolved candidates. *)
C9_OracleScheduleValid == candidates >= 2 => C9_OracleSchedule

-----------------------------------------------------------------------------
(* C10: in every step and for every sample the step is built from the
   candidate position whose distance is minimal, the lowest such position
   when several share the minimum, and the offset is added to the selected
   distance afterwards. *)
C10_BestCandidate ==
    (pc = "loop" /\ StepCompleted)
        => \A i \in Rows(x) :
              LET ds == [j \in 1..Len(diffs) |->
                           get_distances(diffs[j].losses[i], diffs[j].grads[i])]
              IN  /\ Len(diffs) = candidates - 1
                  /\ best[i] \in 1..Len(diffs)
                  /\ \A j \in 1..Len(diffs) : ds[best[i]] <= ds[j]
                  /\ \A j \in 1..(best[i] - 1) : ds[j] > ds[best[i]]
                  /\ distances[i] = ds[best[i]] + Offset
                  /\ grads[i] = diffs[best[i]].grads[i]
                  /\ p_step[i] = get_perturbations(distances[i], grads[i])

(* two positions share the minimal distance with different gradients and the
   first of them was taken *)
C10_Witness ==
    /\ pc = "loop"
    /\ StepCompleted
    /\ Len(diffs) = 2
    /\ \E i \in Rows(x) :
          /\ best[i] = 1
          /\ get_distances(diffs[1].losses[i], diffs[1].grads[i])
               = get_distances(diffs[2].losses[i], diffs[2].grads[i])
          /\ diffs[1].grads[i] # diffs[2].grads[i]
          /\ p_step[i] # get_perturbations(distances[i], diffs[2].grads[i])

=============================================================================
